---- MODULE Spec2Model ----
(***************************************************************************)
(* Model of the advisor backend: the optimization job orchestration of     *)
(* PortfolioOptimizerService (start_optimization, _run_optimization,       *)
(* _update_job_status), the job endpoints of api/portfolio.py and the      *)
(* document store they share.                                              *)
(*                                                                         *)
(* Every await of a storage or collaborator call is one step of the        *)
(* coroutine that makes it; other coroutines may run between two steps.    *)
(* A storage call either takes effect and returns, or raises and leaves    *)
(* the store unchanged.                                                    *)
(***************************************************************************)
EXTENDS Integers, Sequences, FiniteSets, TLC

\* ------------------------------------------------------------------ bounds
\* Storage calls that the environment makes raise, in one behaviour.
MaxFail == 1
\* Cache-clear requests for a job id, in one behaviour.
MaxClear == 1

\* run_forecast_suite calls, in one behaviour.
MaxCalls == 2
MaxArimaCalls == 2
MaxArimaTicks == 3
MaxFrontier == 2
MaxReturns == 3
\* Steps of the clock, in one behaviour.
MaxTicks == 2
\* Hours the clock advances in one step.
TickHours == 12
\* Outcomes of one Monte Carlo run (the generator is not seeded).
NumDraws == 2

\* The job ids uuid4 hands out.
Jobs == {"j1", "j2"}

\* --------------------------------------------------------------- documents
JobStates ==
    {"queued", "fetching_data", "forecasting", "optimizing",
     "generating_analysis", "completed", "failed"}

TerminalStates == {"completed", "failed"}

\* str(e) of the exceptions the pipeline can end up with
NoTickersMsg     == "No tickers available for optimization"
InsufficientMsg  == "Insufficient data for optimization"
BadDateMsg       == "Invalid historical_date format"
AttributeErrMsg  == "'list' object has no attribute 'T'"
UpstreamErrMsg   == "upstream error"
StorageErrMsg    == "storage error"
NoError          == ""

\* storage.get returns None for a missing document
NoDoc ==
    [exists |-> FALSE, status |-> "none", error |-> NoError,
     completed_at |-> FALSE, optimal_portfolio |-> FALSE, llm_report |-> FALSE]

\* OptimizationResult(...).model_dump() with the optional fields at None
OptimizationResult(status, completed_at, optimal_portfolio, llm_report) ==
    [exists |-> TRUE, status |-> status, error |-> NoError,
     completed_at |-> completed_at, optimal_portfolio |-> optimal_portfolio,
     llm_report |-> llm_report]

\* the dict the except branch of _run_optimization saves
ErrorState(msg) ==
    [exists |-> TRUE, status |-> "failed", error |-> msg,
     completed_at |-> FALSE, optimal_portfolio |-> FALSE, llm_report |-> FALSE]

\* ---------------------------------------------------------- forecast suite
Calls == 1..MaxCalls

\* _get_forecast_cache_ttl: 24 hours unless the data settings say otherwise
ForecastCacheTtlHours == 24

\* arguments the callers pass: horizon and models as the optimizer passes
\* them (portfolio_optimizer.py lines 242-243), and a few requests that
\* differ in ticker order, simulations, scenarios and use_cache
Horizon == "6mo"
Models  == <<"gbm", "arima">>

Request(tickers, simulations, scenarios, use_cache) ==
    [tickers |-> tickers, simulations |-> simulations,
     scenarios |-> scenarios, use_cache |-> use_cache]

Requests ==
    {Request(<<"A", "B">>, 100, "none", TRUE),
     Request(<<"B", "A">>, 100, "none", TRUE),
     Request(<<"A", "B">>, 10, "none", TRUE),
     Request(<<"A", "B">>, 100, "bull", TRUE),
     Request(<<"A", "B">>, 100, "none", FALSE)}

\* the order sorted() puts ticker symbols and model names in
StrOrd(t) ==
    CASE t = "A" -> 1
      [] t = "B" -> 2
      [] t = "arima" -> 3
      [] OTHER -> 4

RECURSIVE Sorted(_)
Sorted(s) ==
    IF Len(s) <= 1 THEN s
    ELSE LET m == CHOOSE i \in 1..Len(s) :
                     \A k \in 1..Len(s) : StrOrd(s[i]) <= StrOrd(s[k])
         IN  <<s[m]>> \o Sorted(SubSeq(s, 1, m - 1) \o SubSeq(s, m + 1, Len(s)))

\* _generate_cache_key: sorted tickers, horizon, sorted models, simulations
GenerateCacheKey(tickers, horizon, models, simulations) ==
    <<Sorted(tickers), horizon, Sorted(models), simulations>>

CacheKeys ==
    {GenerateCacheKey(r.tickers, Horizon, Models, r.simulations) :
        r \in Requests}

NoArgs ==
    [tickers |-> <<>>, simulations |-> 0, scenarios |-> "none",
     use_cache |-> FALSE]

NoResult ==
    [kind |-> "none", tickers |-> <<>>, scenarios |-> "none", draw |-> 0]

\* line 224: {"error": "No price history available for tickers"}
NoHistoryResult ==
    [kind |-> "error", tickers |-> <<>>, scenarios |-> "none", draw |-> 0]

\* lines 245-251: ensemble and model outputs of one run
SuiteResult(args, draw) ==
    [kind |-> "forecast", tickers |-> args.tickers,
     scenarios |-> args.scenarios, draw |-> draw]

\* storage.get returns None for a key that was never saved
NoEntry == [exists |-> FALSE, created_at |-> 0, data |-> NoResult, writer |-> 0]

\* _save_forecast_cache, lines 169-172 (writer: the call that saved it)
CacheEntry(created_at, data, writer) ==
    [exists |-> TRUE, created_at |-> created_at, data |-> data,
     writer |-> writer]

IsFreshNever(entry, t) ==
    FALSE

\* _get_cached_forecast, lines 147-149: age < timedelta(hours=ttl_hours)
IsFresh(entry, t) ==
    t - entry.created_at < ForecastCacheTtlHours

\* ------------------------------------------- _run_models_parallel, ensemble
\* names a caller may request; the engine registers "gbm" and "arima"
ModelNames == {"gbm", "arima", "lstm"}
RegisteredModels == {"gbm", "arima"}

\* `models` lists of a suite request
ModelLists ==
    {<<m>> : m \in ModelNames} \cup
    {<<m1, m2>> : m1 \in ModelNames, m2 \in ModelNames}

SuiteTickers == {"A", "B"}

\* mean returns a model can report for a ticker, in percent
MeanReturns == {-2, 4}

\* terminal mean price that goes with a mean return, for current price 100
TerminalMean(mean_return) == 100 + mean_return

\* what a model's forecast() holds for one ticker
TickerError == [kind |-> "error", mean_return |-> 0, terminal_mean |-> 0]
TickerForecast(mean_return) ==
    [kind |-> "ok", mean_return |-> mean_return,
     terminal_mean |-> TerminalMean(mean_return)]
TickerResults == {TickerError} \cup {TickerForecast(r) : r \in MeanReturns}

NoForecasts == [t \in SuiteTickers |-> TickerError]

\* outcome of one _run_model_async task in the gather
PendingOutput(m) == [state |-> "pending", model |-> m, forecast |-> NoForecasts]
RaisedOutput(m)  == [state |-> "raised", model |-> m, forecast |-> NoForecasts]
ReturnedOutput(m, forecast) ==
    [state |-> "returned", model |-> m, forecast |-> forecast]

\* entries of the result map: none, {"error": str(output)}, or an output
\* (model: the model whose task produced what is recorded)
NoModelEntry ==
    [present |-> FALSE, error |-> FALSE, model |-> "none",
     forecast |-> NoForecasts]
ErrorEntry(output) ==
    [present |-> TRUE, error |-> TRUE, model |-> output.model,
     forecast |-> NoForecasts]
OutputEntry(output) ==
    [present |-> TRUE, error |-> FALSE, model |-> output.model,
     forecast |-> output.forecast]

\* lines 323-326 and 328-341: one task per requested model that is
\* registered, in request order
RECURSIVE TasksOf(_)
TasksOf(models) ==
    IF models = <<>> THEN <<>>
    ELSE IF Head(models) \notin RegisteredModels
         THEN TasksOf(Tail(models))
         ELSE <<PendingOutput(Head(models))>> \o TasksOf(Tail(models))

\* lines 347-354: output i is recorded under models[i]
RECURSIVE ProcessResults(_, _, _, _)
ProcessResults(results, models, outputs, i) ==
    IF i > Len(outputs) THEN results
    ELSE ProcessResults(
            [results EXCEPT ![models[i]] =
                IF outputs[i].state = "raised"
                THEN ErrorEntry(outputs[i]) ELSE OutputEntry(outputs[i])],
            models, outputs, i + 1)

\* _create_ensemble lines 418-428: the model counts for the ticker
Contributes(results, m, t) ==
    /\ results[m].present
    /\ ~results[m].error
    /\ results[m].forecast[t].kind # "error"

\* _get_ensemble_weights: 1/len(models) each; weights are counted in units
\* of 1/len(models), so that sums and quotients of them are exact
WeightUnits(models, m) == 1

RECURSIVE WeightedReturns(_, _, _, _)
WeightedReturns(results, models, t, i) ==
    IF i > Len(models) THEN 0
    ELSE (IF Contributes(results, models[i], t)
          THEN results[models[i]].forecast[t].mean_return
                  * WeightUnits(models, models[i])
          ELSE 0) + WeightedReturns(results, models, t, i + 1)

RECURSIVE WeightedPrices(_, _, _, _)
WeightedPrices(results, models, t, i) ==
    IF i > Len(models) THEN 0
    ELSE (IF Contributes(results, models[i], t)
          THEN results[models[i]].forecast[t].terminal_mean
                  * WeightUnits(models, models[i])
          ELSE 0) + WeightedPrices(results, models, t, i + 1)

RECURSIVE TotalWeight(_, _, _, _)
TotalWeightRequested(results, models, t, i) ==
    Len(models)

\* lines 416, 444: the weights of the models that count for the ticker
TotalWeight(results, models, t, i) ==
    IF i > Len(models) THEN 0
    ELSE (IF Contributes(results, models[i], t)
          THEN WeightUnits(models, models[i]) ELSE 0)
         + TotalWeight(results, models, t, i + 1)

\* the quotient of the division; it is exact for the values that occur
Quotient(a, b) == IF a >= 0 THEN a \div b ELSE -((-a) \div b)

NoEnsemble ==
    [t \in SuiteTickers |->
        [has_metrics |-> FALSE, mean_return |-> 0, terminal_mean |-> 0]]

\* lines 446-453: weighted sums divided by the realized total weight
CreateEnsemble(results, models) ==
    [t \in SuiteTickers |->
        LET total == TotalWeight(results, models, t, 1)
        IN  IF total > 0
            THEN [has_metrics |-> TRUE,
                  mean_return |->
                     Quotient(WeightedReturns(results, models, t, 1), total),
                  terminal_mean |->
                     Quotient(WeightedPrices(results, models, t, 1), total)]
            ELSE [has_metrics |-> FALSE, mean_return |-> 0,
                  terminal_mean |-> 0]]

\* ------------------------------------------------- ARIMA parameter cache
ArimaCalls == 1..MaxArimaCalls

\* model instances: the one the engine registers at construction, and one
\* that a caller creates, registers and hands a storage service itself
ArimaInstances == {"engine_arima", "own_arima"}

ArimaTickers == {"A", "B"}

\* the storage service the engine was constructed with; BaseModel starts
\* with _storage_service = None
EngineStorage == "storage"
NoStorage == "none"

\* (p, d, q): the default order and one the grid search may prefer
DefaultOrder == <<1, 1, 1>>
Orders == {DefaultOrder, <<2, 1, 2>>}
NoOrder == <<0, 0, 0>>

\* _get_cached_params line 378: timedelta(hours=24)
ArimaCacheHours == 24

NoParamsEntry == [exists |-> FALSE, created_at |-> 0, params |-> NoOrder]
ParamsEntry(created_at, params) ==
    [exists |-> TRUE, created_at |-> created_at, params |-> params]

\* forecast(tickers=[ticker], auto_tune=...) on a model instance, with the
\* FAST_OPTIMIZE environment variable set or not
ArimaRequest(model, ticker, auto_tune, fast_mode) ==
    [model |-> model, ticker |-> ticker, auto_tune |-> auto_tune,
     fast_mode |-> fast_mode]

ArimaRequests ==
    {ArimaRequest("engine_arima", "A", TRUE, FALSE),
     ArimaRequest("own_arima", "A", TRUE, FALSE),
     ArimaRequest("own_arima", "B", TRUE, FALSE),
     ArimaRequest("own_arima", "A", FALSE, FALSE),
     ArimaRequest("own_arima", "A", TRUE, TRUE)}

NoArimaArgs == ArimaRequest("engine_arima", "A", FALSE, FALSE)

\* what a lookup obtained: no entry, or an entry of some age
NoLookup == [exists |-> FALSE, age |-> 0]
Lookup(entry, t) == [exists |-> TRUE, age |-> t - entry.created_at]

ExpiredNever(entry, t) ==
    FALSE

\* _get_cached_params lines 377-379: age > timedelta(hours=24)
Expired(entry, t) ==
    t - entry.created_at > ArimaCacheHours

\* ------------------------------------------------- mean-variance optimizer
\* weights are counted in units of 0.0001
WeightScale == 10000

\* the tickers of mean_returns.index, in order
OptTickers == <<"A", "B", "C">>
NumAssets == Len(OptTickers)
TickerSet == {OptTickers[i] : i \in 1..NumAssets}
IndexOf(t) == CHOOSE i \in 1..NumAssets : OptTickers[i] = t

\* weight vectors that an SLSQP solve can end on for some returns and
\* covariances
SolverIterates ==
    {<<5000, 5000, 0>>,
     <<9984, 8, 8>>,
     <<5000, 4950, 50>>,
     <<3400, 3300, 3300>>,
     <<0, 6000, 4000>>}

\* PortfolioConstraints; min_holdings 3, max_holdings 20 and
\* min_position_size 0.01 are the defaults of the model class
Constraints(has_max, max_asset_weight, excluded_assets, max_holdings) ==
    [present |-> TRUE, has_max |-> has_max,
     max_asset_weight |-> max_asset_weight,
     excluded_assets |-> excluded_assets,
     min_holdings |-> 3, max_holdings |-> max_holdings,
     min_position_size |-> 100]

NoConstraints ==
    [present |-> FALSE, has_max |-> FALSE, max_asset_weight |-> WeightScale,
     excluded_assets |-> {}, min_holdings |-> 3, max_holdings |-> 20,
     min_position_size |-> 100]

ConstraintSets ==
    {Constraints(FALSE, WeightScale, {"C"}, 20),
     Constraints(TRUE, 5000, {}, 20),
     Constraints(TRUE, 3000, {}, 20),
     Constraints(FALSE, WeightScale, {}, 2)}

\* _build_optimization_constraints lines 575-592: the upper bounds (the
\* lower bound is 0 everywhere)
BuildBounds(constraints) ==
    [i \in 1..NumAssets |->
        IF ~constraints.present THEN WeightScale
        ELSE IF OptTickers[i] \in constraints.excluded_assets THEN 0
        ELSE IF constraints.has_max THEN constraints.max_asset_weight
        ELSE WeightScale]

\* _calculate_mean_variance line 820: bounds (0.0, 1.0) for every asset
UnitBounds == [i \in 1..NumAssets |-> WeightScale]

RECURSIVE SumSeq(_)
SumSeq(x) == IF x = <<>> THEN 0 ELSE Head(x) + SumSeq(Tail(x))

\* what SLSQP answers with success: weights within the bounds that sum to 1
Solutions(bounds) ==
    {x \in SolverIterates :
        /\ SumSeq(x) = WeightScale
        /\ \A i \in 1..NumAssets : 0 <= x[i] /\ x[i] <= bounds[i]}

\* dict(zip(tickers, result.x))
WeightsOf(x) == [t \in TickerSet |-> x[IndexOf(t)]]

RECURSIVE SumWeights(_)
SumWeights(w) ==
    IF DOMAIN w = {} THEN 0
    ELSE LET t == CHOOSE u \in DOMAIN w : TRUE
         IN  w[t] + SumWeights([u \in DOMAIN w \ {t} |-> w[u]])

\* {k: v / total}: the weights divided by their sum
Normalized(w) ==
    [t \in DOMAIN w |-> (w[t] * WeightScale) \div SumWeights(w)]

\* _filter_small_positions lines 631-644
FilterSmallPositions(w, min_position_size) ==
    LET kept == {t \in DOMAIN w : w[t] >= min_position_size}
    IN  IF kept = {} THEN w
        ELSE Normalized([t \in kept |-> w[t]])

\* lines 718-726: the max_holdings largest positions (sorted() is stable, so
\* of equal weights the earlier ticker comes first), re-normalized
TopHoldings(w, max_holdings) ==
    LET top == CHOOSE S \in SUBSET DOMAIN w :
                  /\ Cardinality(S) = max_holdings
                  /\ \A t \in S, u \in DOMAIN w \ S :
                        \/ w[t] > w[u]
                        \/ w[t] = w[u] /\ IndexOf(t) < IndexOf(u)
    IN  Normalized([t \in top |-> w[t]])

\* lines 699-726: the weights the constrained solver goes on with
ConstrainedWeights(constraints, x) ==
    LET w == FilterSmallPositions(WeightsOf(x), constraints.min_position_size)
    IN  IF Cardinality(DOMAIN w) >= constraints.min_holdings
           /\ Cardinality(DOMAIN w) > constraints.max_holdings
        THEN TopHoldings(w, constraints.max_holdings)
        ELSE w

BroadcastErrMsg == "operands could not be broadcast together"
NoSolveMsg == "Constrained optimization failed"

\* what a solver call hands back: a portfolio and a frontier, or an exception
OptNoResult ==
    [kind |-> "none", error |-> NoError, weights |-> <<>>,
     targets |-> 0, frontier |-> {}]
RaisedResult(msg) ==
    [kind |-> "raised", error |-> msg, weights |-> <<>>,
     targets |-> 0, frontier |-> {}]
ReturnedResult(weights, targets, frontier) ==
    [kind |-> "returned", error |-> NoError, weights |-> weights,
     targets |-> targets, frontier |-> frontier]

\* lines 728-737: portfolio_return multiplies the returns array by the list
\* of weights, which raises when the lengths cannot be broadcast;
\* portfolio_volatility then takes .T of the list
AfterWeights(w) ==
    IF Cardinality(DOMAIN w) \notin {1, NumAssets}
    THEN RaisedResult(BroadcastErrMsg)
    ELSE RaisedResult(AttributeErrMsg)

\* np.linspace(min_ret, max_ret, 5 if fast else 20)
FrontierTargets(fast) == IF fast THEN 5 ELSE 20

\* line 868: weights of a frontier point, {k: v for ... if v > 0.0001}
FrontierWeights(x) ==
    LET w == WeightsOf(x)
    IN  [t \in {u \in TickerSet : w[u] > 1} |-> w[t]]

\* _calculate_mean_variance lines 803-880: the max-Sharpe weights as the
\* solver left them (success is not looked at) and the frontier points of
\* the targets whose solve succeeded
MeanVariance(fast) ==
    {ReturnedResult(WeightsOf(x), FrontierTargets(fast),
                    {FrontierWeights(y) : y \in ys}) :
        x \in Solutions(UnitBounds),
        ys \in {S \in SUBSET Solutions(UnitBounds) :
                   Cardinality(S) <= MaxFrontier}}

ConstrainedResultNoFallback(constraints, converged, x, unconstrained) ==
    IF ~converged
    THEN RaisedResult(NoSolveMsg)
    ELSE AfterWeights(ConstrainedWeights(constraints, x))

\* _calculate_mean_variance_constrained lines 684-737: without convergence
\* the unconstrained result; with it, the filtered weights and then the
\* metrics of the portfolio
ConstrainedResult(constraints, converged, x, unconstrained) ==
    IF ~converged
    THEN unconstrained
    ELSE AfterWeights(ConstrainedWeights(constraints, x))

\* line 307: active_assets, {k: v for ... if v > 0.001}
ActiveAssets(w) ==
    [t \in {u \in DOMAIN w : w[u] > 10} |-> w[t]]

\* ------------------------------------------------------- expected returns
\* returns and yields are counted in units of 0.01 percent
\* the two parts of the fetched data: dated on or before historical_date
\* ("pre") and after it ("post"); without historical_date all data is "pre"
Periods == {"pre", "post"}

\* data of one ticker: last close, dividends paid and mean daily return
\* of each part
PriceData(price_pre, price_post, div_pre, div_post, mu_pre) ==
    [price_pre |-> price_pre, price_post |-> price_post,
     div_pre |-> div_pre, div_post |-> div_post, mu_pre |-> mu_pre]

PriceDataSets ==
    {PriceData(pp, pq, dp, dq, mu) :
        pp \in {50, 100}, pq \in {50, 100}, dp \in {0, 2}, dq \in {0, 2},
        mu \in {1, 2}}

NoPriceData == PriceData(100, 100, 0, 0, 0)

ExpenseRatios == {0, 10}

\* lines 196-220: prices_for_optimization is the training part in backtest
\* mode and everything otherwise; daily_returns and the covariance matrix
\* come from it
CovarianceInputs(backtest) == {"pre"}

\* prices_df.iloc[-1]: the last row of all fetched prices
CurrentPrice(backtest, data) ==
    IF backtest THEN data.price_post ELSE data.price_pre

\* dividends_total: the sum over the whole fetched period
DividendsTotal(backtest, data) ==
    IF backtest THEN data.div_pre + data.div_post ELSE data.div_pre

\* div / price if price > 0 else 0.0
DividendYield(div, price) ==
    IF price > 0 THEN (div * 10000) \div price ELSE 0

\* the parts of the data that current price and dividends come from
YieldInputs(backtest) == IF backtest THEN Periods ELSE {"pre"}

\* an expected-returns value with the parts of the data it was made from
Returns(kind, value, inputs) ==
    [kind |-> kind, value |-> value, inputs |-> inputs]

NoReturns == Returns("none", 0, {})

\* _calculate_historical_returns lines 543-561: annualized mean daily
\* return of daily_returns, plus dividends_total over the current price of
\* prices_df, minus the expense ratio
HistoricalReturns(backtest, data, expense) ==
    Returns("historical",
            data.mu_pre * 252
               + DividendYield(DividendsTotal(backtest, data),
                               CurrentPrice(backtest, data))
               - expense,
            {"pre"} \cup YieldInputs(backtest))

\* the same estimate made of the covariance window alone
WindowEstimate(data, expense) ==
    data.mu_pre * 252 + DividendYield(data.div_pre, data.price_pre) - expense

\* ensemble mean returns over the 126-day horizon and what
\* extract_expected_returns makes of them: (1 + r) ** (365 / 126) - 1
ForecastMeans == {0, 500}
Annualized(mean_return) == IF mean_return = 500 THEN 1518 ELSE 0

\* _fetch_price_history: the engine fetches its own history, period "2y"
\* back from now
ForecastInputs(backtest) == IF backtest THEN Periods ELSE {"pre"}

\* lines 250-267: forecast return plus dividend yield minus expense ratio
ForecastReturns(backtest, data, expense, mean_return) ==
    Returns("forecast",
            Annualized(mean_return)
               + DividendYield(DividendsTotal(backtest, data),
                               CurrentPrice(backtest, data))
               - expense,
            ForecastInputs(backtest) \cup YieldInputs(backtest))

\* an {"error": ...} suite has no ensemble: the Series of expected returns
\* is empty and its sum with the dividend yields is NaN for every ticker
NanReturns(backtest) ==
    Returns("nan", 0, YieldInputs(backtest))

\* ---------------------------------------------------------- risk metrics
\* returns are counted in percent, confidence levels too
ReturnValues == {-3, -1, 0, 2}
ConfidenceLevels == {50, 90, 95}

ReturnSeries == UNION {[1..n -> ReturnValues] : n \in 0..MaxReturns}

RECURSIVE SortedInts(_)
SortedInts(s) ==
    IF Len(s) <= 1 THEN s
    ELSE LET m == CHOOSE i \in 1..Len(s) : \A k \in 1..Len(s) : s[i] <= s[k]
         IN  <<s[m]>> \o SortedInts(SubSeq(s, 1, m - 1)
                                     \o SubSeq(s, m + 1, Len(s)))

\* np.percentile(returns, (1 - confidence) * 100), linear interpolation
\* between the order statistics around position (n - 1) * q; the value is
\* given times 100
Percentile100(returns, confidence) ==
    LET a  == SortedInts(returns)
        k  == (Len(a) - 1) * (100 - confidence)
        lo == (k \div 100) + 1
        r  == k % 100
    IN  IF lo >= Len(a) THEN 100 * a[Len(a)]
        ELSE 100 * a[lo] + r * (a[lo + 1] - a[lo])

UpperTail(returns, threshold100) ==
    {i \in 1..Len(returns) : 100 * returns[i] >= threshold100}

\* calculate_cvar line 98: returns[returns <= var_threshold]
TailLosses(returns, threshold100) ==
    {i \in 1..Len(returns) : 100 * returns[i] <= threshold100}

RECURSIVE SumAt(_, _)
SumAt(returns, indices) ==
    IF indices = {} THEN 0
    ELSE LET i == CHOOSE k \in indices : TRUE
         IN  returns[i] + SumAt(returns, indices \ {i})

\* results: an error dict, or the value; the mean of the tail is kept as
\* its sum and its count
NoMetric ==
    [kind |-> "none", value100 |-> 0, tail_sum |-> 0,
     tail_observations |-> 0]
MetricError ==
    [kind |-> "error", value100 |-> 0, tail_sum |-> 0,
     tail_observations |-> 0]

\* calculate_var lines 48-57, method "historical"
CalculateVar(returns, confidence) ==
    IF Len(returns) = 0 THEN MetricError
    ELSE [kind |-> "var", value100 |-> Percentile100(returns, confidence),
          tail_sum |-> 0, tail_observations |-> 0]

\* calculate_cvar lines 91-109
CalculateCvar(returns, confidence) ==
    IF Len(returns) = 0 THEN MetricError
    ELSE LET threshold == Percentile100(returns, confidence)
             tail == TailLosses(returns, threshold)
         IN  IF tail = {}
             THEN [kind |-> "cvar", value100 |-> threshold,
                   tail_sum |-> threshold, tail_observations |-> 0]
             ELSE [kind |-> "cvar", value100 |-> threshold,
                   tail_sum |-> SumAt(returns, tail),
                   tail_observations |-> Cardinality(tail)]

\* ------------------------------------------------------ ARIMA grid search
\* _auto_tune_arima line 265: max_iter
MaxIter == 50

\* (low, high) ranges the search is given; the defaults are (0, 5), (0, 2)
\* and (0, 5), and _forecast_single passes (d, d + 1) for a stationary
\* series; a range whose low exceeds its high is empty
PRanges == {<<0, 5>>, <<0, 1>>, <<2, 1>>}
DRanges == {<<0, 2>>, <<0, 1>>, <<1, 2>>}
QRanges == {<<0, 5>>, <<0, 1>>}
NoRanges == [p_range |-> <<0, 0>>, d_range |-> <<0, 0>>, q_range |-> <<0, 0>>]

\* model_fit.aic of a candidate that fitted; best_aic is <<aic>>, or the
\* empty sequence for np.inf
AicValues == {1, 2}
InfAic == <<>>

RangeSize(range) ==
    IF range[2] < range[1] THEN 0 ELSE range[2] - range[1] + 1

\* the number of candidates of the three nested loops
GridSize(ranges) ==
    RangeSize(ranges.d_range) * RangeSize(ranges.p_range)
        * RangeSize(ranges.q_range)

\* the n-th candidate (from 0) in the order of the loops: d outermost, then
\* p, then q
Candidate(ranges, n) ==
    LET np == RangeSize(ranges.p_range)
        nq == RangeSize(ranges.q_range)
    IN  <<ranges.p_range[1] + ((n \div nq) % np),
          ranges.d_range[1] + (n \div (nq * np)),
          ranges.q_range[1] + (n % nq)>>

\* line 299: model_fit.aic < best_aic
AicBelow(aic, best) == IF best = InfAic THEN TRUE ELSE aic < best[1]

BudgetNeverSpent(iterations) == FALSE

\* line 288: iterations > max_iter
BudgetSpent(iterations) == iterations > MaxIter

\* ---------------------------------------------------------------- tokens
\* refresh tokens the service can sign; a string it never signed fails
\* jwt.decode
RefreshTokens == {"r1", "r2", "r3"}

\* revoke_token line 125: the document id is the SHA-256 of the token
TokenHash(token) == <<"sha256", token>>

Unauthorized == 401
Ok == 200

NoResponse == [token |-> "", status |-> 0, after_logout |-> FALSE]

\* is_token_revoked lines 139-149, without the storage call raising
IsTokenRevoked(storage, revoked, token) ==
    IF storage = NoStorage THEN FALSE ELSE TokenHash(token) \in revoked

\* ------------------------------------------------------------- agent runs
Runs == {"run1", "run2"}

\* the status field of a document of agent_runs; NoRun: no document
RunStatuses == {"queued", "running", "completed", "failed"}
RunTerminal == {"completed", "failed"}
NoRun == "none"

\* ------------------------------------------------------------------- state
VARIABLES
    store,      \* collection "optimization_jobs": job id -> document
    call,       \* position of the start_optimization call that owns the id
    params,     \* arguments of that call
    pc,         \* position of the _run_optimization task
    target,     \* status argument of the _update_job_status in progress
    current,    \* local `current` of _update_job_status
    exc,        \* str(e) of the exception on its way to the except branch
    report,     \* llm_result obtained by the task
    lastWrite,  \* history: document of the latest save that returned
    writeFailed,\* history: a save of the task has raised
    response,   \* what the step just taken answered to a status request
    fails,      \* storage calls that have raised so far
    clears,     \* cache-clear requests so far
    cleared,    \* the jobs whose document a cache clear has deleted
    cache,      \* collection "forecast_cache": cache key -> entry
    now,        \* the clock, in hours
    fpc,        \* position of each run_forecast_suite call
    fargs,      \* arguments of each call
    fresult,    \* `result` of each call, returned when fpc is "returned"
    fetched,    \* the call has fetched price history
    fstart,     \* history: clock when the call was issued
    fread,      \* history: writer of the entry the call's lookup obtained
    fprior,     \* history: calls that had returned when the call was issued
    mpc,        \* position of a _run_models_parallel call and its ensemble
    mreq,       \* `models` of that call
    mtasks,     \* the tasks of its gather and their outputs
    mresults,   \* its result map
    mens,       \* the ensemble made of the result map
    astorage,   \* _storage_service of each ARIMA model instance
    aregistered,\* the instance is in the engine's `models`
    pcache,     \* collection "model_params_cache": ticker -> entry
    aclock,     \* the clock of the ARIMA forecasts, in hours
    apc,        \* position of each _forecast_single call
    aargs,      \* model instance, ticker, auto_tune and fast mode of the call
    aorder,     \* the (p, d, q) the call fits
    atuned,     \* the call ran the grid search
    aread,      \* history: the cache entry the call's lookup obtained
    astart,     \* history: clock when the call began
    aprior,     \* history: calls that were done when the call began
    opc,        \* position of the solve of one optimization
    oconstraints,\* its PortfolioConstraints, or none
    ofast,      \* its fast flag
    oconverged, \* history: the constrained solve converged ("yes", "no")
    ounc,       \* history: what _calculate_mean_variance returned
    oresult,    \* (frontier, optimal) of the solver call, or its exception
    oportfolio, \* weights of optimal_assets
    rpc,        \* position of the expected-returns stage of one job
    rin,        \* its mode (backtest, fast), price data and expense ratio
    rforecast,  \* how the forecast suite ended for it
    reret,      \* expected_annual_returns of the job's ticker
    rcov,       \* the parts of the data the covariance matrix was made from
    kpc,        \* a caller of the risk calculator has its arguments
    kreturns,   \* the return series
    kconf,      \* the confidence level
    kvar,       \* what calculate_var returned
    kcvar,      \* what calculate_cvar returned
    tpc,        \* where one _auto_tune_arima call stands
    tranges,    \* its p, d and q ranges
    tnext,      \* the number of candidates the loops have passed
    titerations, \* its counter `iterations`
    tfits,      \* the number of fits it has attempted
    tfitted,    \* whether a candidate has fitted
    tbest_aic,  \* its best_aic
    tbest_order, \* its best_order
    tlow,       \* the lowest AIC a fit has given
    tresult,    \* the order it returned
    hstorage,   \* the storage service of the auth service, or none
    hissued,    \* the refresh tokens signed so far
    hrevoked,   \* the ids of the documents in revoked_tokens
    hloggedout, \* the refresh tokens a logout request has presented
    hresp,      \* the last answer of the refresh endpoint
    runs,       \* the status of each document of agent_runs
    gpc         \* where run_agent and execute_run stand for each run

jobVars == <<store, call, params, pc, target, current, exc, report,
             lastWrite, writeFailed, response, clears, cleared>>

forecastVars == <<cache, now, fpc, fargs, fresult, fetched, fstart, fread,
                  fprior>>

suiteVars == <<mpc, mreq, mtasks, mresults, mens>>

arimaVars == <<astorage, aregistered, pcache, aclock, apc, aargs, aorder,
               atuned, aread, astart, aprior>>

optVars == <<opc, oconstraints, ofast, oconverged, ounc, oresult,
             oportfolio>>

returnVars == <<rpc, rin, rforecast, reret, rcov>>

riskVars == <<kpc, kreturns, kconf, kvar, kcvar>>

tuneVars == <<tpc, tranges, tnext, titerations, tfits, tfitted, tbest_aic,
              tbest_order, tlow, tresult>>

authVars == <<hstorage, hissued, hrevoked, hloggedout, hresp>>

agentVars == <<runs, gpc>>

vars == <<jobVars, forecastVars, suiteVars, arimaVars, optVars, returnVars,
          riskVars, tuneVars, authVars, agentVars, fails>>

NoParams == [fast |-> FALSE, excluded |-> FALSE, constraints |-> FALSE]
NoRead   == [job |-> "none", doc |-> NoDoc]

Init ==
    /\ store = [j \in Jobs |-> NoDoc]
    /\ call = [j \in Jobs |-> "idle"]
    /\ params = [j \in Jobs |-> NoParams]
    /\ pc = [j \in Jobs |-> "none"]
    /\ target = [j \in Jobs |-> "none"]
    /\ current = [j \in Jobs |-> NoDoc]
    /\ exc = [j \in Jobs |-> NoError]
    /\ report = [j \in Jobs |-> FALSE]
    /\ lastWrite = [j \in Jobs |-> NoDoc]
    /\ writeFailed = [j \in Jobs |-> FALSE]
    /\ response = NoRead
    /\ fails = 0
    /\ clears = 0
    /\ cleared = {}
    /\ cache = [k \in CacheKeys |-> NoEntry]
    /\ now = 0
    /\ fpc = [c \in Calls |-> "idle"]
    /\ fargs = [c \in Calls |-> NoArgs]
    /\ fresult = [c \in Calls |-> NoResult]
    /\ fetched = [c \in Calls |-> FALSE]
    /\ fstart = [c \in Calls |-> 0]
    /\ fread = [c \in Calls |-> 0]
    /\ fprior = [c \in Calls |-> {}]
    /\ mpc = "idle"
    /\ mreq = <<>>
    /\ mtasks = <<>>
    /\ mresults = [m \in ModelNames |-> NoModelEntry]
    /\ mens = NoEnsemble
    /\ astorage = [m \in ArimaInstances |-> NoStorage]
    /\ aregistered = [m \in ArimaInstances |-> m = "engine_arima"]
    /\ pcache = [t \in ArimaTickers |-> NoParamsEntry]
    /\ aclock = 0
    /\ apc = [c \in ArimaCalls |-> "idle"]
    /\ aargs = [c \in ArimaCalls |-> NoArimaArgs]
    /\ aorder = [c \in ArimaCalls |-> NoOrder]
    /\ atuned = [c \in ArimaCalls |-> FALSE]
    /\ aread = [c \in ArimaCalls |-> NoLookup]
    /\ astart = [c \in ArimaCalls |-> 0]
    /\ aprior = [c \in ArimaCalls |-> {}]
    /\ opc = "idle"
    /\ oconstraints = NoConstraints
    /\ ofast = FALSE
    /\ oconverged = "none"
    /\ ounc = OptNoResult
    /\ oresult = OptNoResult
    /\ oportfolio = <<>>
    /\ rpc = "idle"
    /\ rin = [backtest |-> FALSE, fast |-> FALSE, data |-> NoPriceData,
              expense |-> 0]
    /\ rforecast = "none"
    /\ reret = NoReturns
    /\ rcov = {}
    /\ kpc = "idle"
    /\ kreturns = <<>>
    /\ kconf = 95
    /\ kvar = NoMetric
    /\ kcvar = NoMetric
    /\ tpc = "idle"
    /\ tranges = NoRanges
    /\ tnext = 0
    /\ titerations = 0
    /\ tfits = 0
    /\ tfitted = FALSE
    /\ tbest_aic = InfAic
    /\ tbest_order = DefaultOrder
    /\ tlow = InfAic
    /\ tresult = NoOrder
    /\ hstorage = NoStorage
    /\ hissued = {}
    /\ hrevoked = {}
    /\ hloggedout = {}
    /\ hresp = NoResponse
    /\ runs = [r \in Runs |-> NoRun]
    /\ gpc = [r \in Runs |-> "idle"]

\* ----------------------------------------------------------------- storage
SaveMerge(j, data) ==
    /\ store' = [store EXCEPT ![j] =
           IF store[j].exists
           THEN [data EXCEPT
                   !.error = IF data.error = NoError
                             THEN store[j].error ELSE data.error,
                   !.completed_at = data.completed_at \/ store[j].completed_at,
                   !.optimal_portfolio =
                       data.optimal_portfolio \/ store[j].optimal_portfolio,
                   !.llm_report = data.llm_report \/ store[j].llm_report]
           ELSE data]
    /\ lastWrite' = [lastWrite EXCEPT ![j] = data]

\* FirestoreStorage.save: doc_ref.set(data) replaces the whole document
Save(j, data) ==
    /\ store' = [store EXCEPT ![j] = data]
    /\ lastWrite' = [lastWrite EXCEPT ![j] = data]

\* a storage call that raises
StorageRaises ==
    /\ fails < MaxFail
    /\ fails' = fails + 1

\* ------------------------------------------------------ start_optimization
\* lines 67-99: new job id, constraints loaded from the plan (a failure of
\* the plan read is logged and leaves constraints at None), initial state
StartLoadConstraints(j) ==
    /\ call[j] = "idle"
    /\ \E fast \in BOOLEAN, excluded \in BOOLEAN, constraints \in BOOLEAN :
          /\ \/ /\ UNCHANGED fails
                /\ params' = [params EXCEPT ![j] =
                       [fast |-> fast, excluded |-> excluded,
                        constraints |-> constraints]]
             \/ /\ StorageRaises
                /\ params' = [params EXCEPT ![j] =
                       [fast |-> fast, excluded |-> excluded,
                        constraints |-> FALSE]]
    /\ call' = [call EXCEPT ![j] = "saving"]
    /\ response' = NoRead
    /\ UNCHANGED <<store, pc, target, current, exc, report, lastWrite,
                   writeFailed, clears, cleared>>

StartScheduleWithoutSave(j) ==
    /\ call[j] = "saving"
    /\ pc' = [pc EXCEPT ![j] = "scheduled"]
    /\ call' = [call EXCEPT ![j] = "returned"]
    /\ response' = NoRead
    /\ UNCHANGED <<store, lastWrite, params, target, current, exc, report,
                   writeFailed, fails, clears, cleared>>

\* lines 101-113: save the queued document, create the task, return the id
StartSaveAndSchedule(j) ==
    /\ call[j] = "saving"
    /\ Save(j, OptimizationResult("queued", FALSE, FALSE, FALSE))
    /\ pc' = [pc EXCEPT ![j] = "scheduled"]
    /\ call' = [call EXCEPT ![j] = "returned"]
    /\ response' = NoRead
    /\ UNCHANGED <<params, target, current, exc, report, writeFailed,
                   fails, clears, cleared>>

\* line 101 raises: nothing in start_optimization catches it
StartSaveRaises(j) ==
    /\ call[j] = "saving"
    /\ StorageRaises
    /\ call' = [call EXCEPT ![j] = "raised"]
    /\ response' = NoRead
    /\ UNCHANGED <<store, params, pc, target, current, exc, report,
                   lastWrite, writeFailed, clears, cleared>>

\* -------------------------------------------------------- _run_optimization
\* an exception inside the try block goes to the except branch (line 428)
Raise(j, msg) ==
    /\ pc' = [pc EXCEPT ![j] = "handler"]
    /\ exc' = [exc EXCEPT ![j] = msg]

\* where the task continues after _update_job_status(job_id, status)
AfterUpdate(status) ==
    CASE status = "fetching_data"       -> "fetch"
      [] status = "forecasting"         -> "forecast"
      [] status = "optimizing"          -> "solve"
      [] status = "generating_analysis" -> "scenarios"

\* the task starts running: lines 127-132, up to the first await
TaskStart(j) ==
    /\ pc[j] = "scheduled"
    /\ pc' = [pc EXCEPT ![j] = "upd_get"]
    /\ target' = [target EXCEPT ![j] = "fetching_data"]
    /\ response' = NoRead
    /\ UNCHANGED <<store, call, params, current, exc, report, lastWrite,
                   writeFailed, fails, clears, cleared>>

\* _update_job_status, line 525: current = await storage.get(...)
UpdateGet(j) ==
    /\ pc[j] = "upd_get"
    /\ \/ /\ current' = [current EXCEPT ![j] = store[j]]
          /\ pc' = [pc EXCEPT ![j] =
                 IF store[j].exists THEN "upd_save" ELSE AfterUpdate(target[j])]
          /\ UNCHANGED <<exc, fails>>
       \/ /\ StorageRaises
          /\ Raise(j, StorageErrMsg)
          /\ UNCHANGED current
    /\ response' = NoRead
    /\ UNCHANGED <<store, call, params, target, report, lastWrite,
                   writeFailed, clears, cleared>>

\* _update_job_status, lines 526-528: current["status"] = status; save
UpdateSave(j) ==
    /\ pc[j] = "upd_save"
    /\ \/ /\ Save(j, [current[j] EXCEPT !.status = target[j]])
          /\ pc' = [pc EXCEPT ![j] = AfterUpdate(target[j])]
          /\ UNCHANGED <<exc, fails, writeFailed>>
       \/ /\ StorageRaises
          /\ Raise(j, StorageErrMsg)
          /\ writeFailed' = [writeFailed EXCEPT ![j] = TRUE]
          /\ UNCHANGED <<store, lastWrite>>
    /\ current' = [current EXCEPT ![j] = NoDoc]
    /\ response' = NoRead
    /\ UNCHANGED <<call, params, target, report, clears, cleared>>

StageAfterFetchNoForecast(fast) ==
    "optimizing"

\* line 235: `if self.forecasting_engine and not fast` (the engine is always
\* injected, core/dependencies.py); the else branch goes straight to line 292
StageAfterFetch(fast) ==
    IF ~fast THEN "forecasting" ELSE "optimizing"

\* lines 134-231: universe, price and dividend fetch, overlap, split.
\* With every ticker excluded line 139 raises; otherwise the date parse, a
\* history call or the overlap check may raise, or the task goes on to
\* forecasting (line 235: an engine is injected and fast is off) or to
\* optimizing (line 292).
FetchData(j) ==
    /\ pc[j] = "fetch"
    /\ \/ /\ params[j].excluded
          /\ Raise(j, NoTickersMsg)
          /\ UNCHANGED target
       \/ /\ ~params[j].excluded
          /\ \E msg \in {BadDateMsg, UpstreamErrMsg, InsufficientMsg} :
                Raise(j, msg)
          /\ UNCHANGED target
       \/ /\ ~params[j].excluded
          /\ pc' = [pc EXCEPT ![j] = "upd_get"]
          /\ target' = [target EXCEPT ![j] = StageAfterFetch(params[j].fast)]
          /\ UNCHANGED exc
    /\ response' = NoRead
    /\ UNCHANGED <<store, call, params, current, report, lastWrite,
                   writeFailed, fails, clears, cleared>>

\* lines 239-274: run_forecast_suite; whatever it raises is caught and the
\* historical estimate is used instead, so the task always goes on
Forecast(j) ==
    /\ pc[j] = "forecast"
    /\ pc' = [pc EXCEPT ![j] = "upd_get"]
    /\ target' = [target EXCEPT ![j] = "optimizing"]
    /\ response' = NoRead
    /\ UNCHANGED <<store, call, params, current, exc, report, lastWrite,
                   writeFailed, fails, clears, cleared>>

\* _calculate_mean_variance_constrained, lines 685-737: a solve that does
\* not converge returns the unconstrained result (line 697); one that
\* converges calls portfolio_volatility with a list, whose weights.T raises
ConstrainedSolve(converged) ==
    IF converged THEN AttributeErrMsg ELSE NoError

\* lines 294-334: the solve, then get_return_metrics for each position
Solve(j) ==
    /\ pc[j] = "solve"
    /\ \/ /\ params[j].constraints
          /\ \E converged \in BOOLEAN :
                IF ConstrainedSolve(converged) # NoError
                THEN /\ Raise(j, ConstrainedSolve(converged))
                     /\ UNCHANGED target
                ELSE /\ pc' = [pc EXCEPT ![j] = "upd_get"]
                     /\ target' = [target EXCEPT ![j] = "generating_analysis"]
                     /\ UNCHANGED exc
       \/ /\ ~params[j].constraints
          /\ pc' = [pc EXCEPT ![j] = "upd_get"]
          /\ target' = [target EXCEPT ![j] = "generating_analysis"]
          /\ UNCHANGED exc
       \/ /\ Raise(j, UpstreamErrMsg)
          /\ UNCHANGED target
    /\ response' = NoRead
    /\ UNCHANGED <<store, call, params, current, report, lastWrite,
                   writeFailed, fails, clears, cleared>>

\* lines 339-374: scenarios (a failing narrative generator falls back to the
\* fixed multipliers) and the backtest (a failure is logged and skipped)
Scenarios(j) ==
    /\ pc[j] = "scenarios"
    /\ pc' = [pc EXCEPT ![j] = "save_result"]
    /\ response' = NoRead
    /\ UNCHANGED <<store, call, params, target, current, exc, report,
                   lastWrite, writeFailed, fails, clears, cleared>>

\* lines 377-392: final_job_state with status generating_analysis
SaveResult(j) ==
    /\ pc[j] = "save_result"
    /\ \/ /\ Save(j, OptimizationResult("generating_analysis", TRUE, TRUE, FALSE))
          /\ pc' = [pc EXCEPT ![j] = "llm_report"]
          /\ UNCHANGED <<exc, fails, writeFailed>>
       \/ /\ StorageRaises
          /\ Raise(j, StorageErrMsg)
          /\ writeFailed' = [writeFailed EXCEPT ![j] = TRUE]
          /\ UNCHANGED <<store, lastWrite>>
    /\ response' = NoRead
    /\ UNCHANGED <<call, params, target, current, report, clears, cleared>>

\* lines 395-420: the report; _generate_llm_report returns None on failure,
\* and fast mode does not call it
LlmReport(j) ==
    /\ pc[j] = "llm_report"
    /\ \E llm_result \in BOOLEAN :
          report' = [report EXCEPT ![j] = llm_result /\ ~params[j].fast]
    /\ pc' = [pc EXCEPT ![j] = "save_completed"]
    /\ response' = NoRead
    /\ UNCHANGED <<store, call, params, target, current, exc, lastWrite,
                   writeFailed, fails, clears, cleared>>

\* lines 423-426: status completed, saved
SaveCompleted(j) ==
    /\ pc[j] = "save_completed"
    /\ \/ /\ Save(j, OptimizationResult("completed", TRUE, TRUE, report[j]))
          /\ pc' = [pc EXCEPT ![j] = "done"]
          /\ UNCHANGED <<exc, fails, writeFailed>>
       \/ /\ StorageRaises
          /\ Raise(j, StorageErrMsg)
          /\ writeFailed' = [writeFailed EXCEPT ![j] = TRUE]
          /\ UNCHANGED <<store, lastWrite>>
    /\ response' = NoRead
    /\ UNCHANGED <<call, params, target, current, report, clears, cleared>>

\* lines 428-439: the except branch saves the error state; a save that
\* raises here leaves the task with an unhandled exception
HandleException(j) ==
    /\ pc[j] = "handler"
    /\ \/ /\ Save(j, ErrorState(exc[j]))
          /\ pc' = [pc EXCEPT ![j] = "done"]
          /\ UNCHANGED <<fails, writeFailed>>
       \/ /\ StorageRaises
          /\ pc' = [pc EXCEPT ![j] = "raised"]
          /\ writeFailed' = [writeFailed EXCEPT ![j] = TRUE]
          /\ UNCHANGED <<store, lastWrite>>
    /\ response' = NoRead
    /\ UNCHANGED <<call, params, target, current, exc, report, clears, cleared>>

\* ------------------------------------------------------------ api/portfolio
\* get_optimization_status: one storage.get, 404 when there is no document
GetOptimizationStatus(j) ==
    /\ call[j] = "returned"
    /\ response' = [job |-> j, doc |-> store[j]]
    /\ UNCHANGED <<store, call, params, pc, target, current, exc, report,
                   lastWrite, writeFailed, fails, clears, cleared>>

\* clear_optimization_cache with a job id: storage.delete, whatever the
\* state of the job
ClearOptimizationCache(j) ==
    /\ call[j] = "returned"
    /\ clears < MaxClear
    /\ clears' = clears + 1
    /\ cleared' = cleared \cup {j}
    /\ store' = [store EXCEPT ![j] = NoDoc]
    /\ response' = NoRead
    /\ UNCHANGED <<call, params, pc, target, current, exc, report,
                   lastWrite, writeFailed, fails>>

\* -------------------------------------------------------- run_forecast_suite
KeyOf(args) ==
    GenerateCacheKey(args.tickers, Horizon, Models, args.simulations)

\* lines 203-214: the call is issued; with use_cache the cache is read
\* (_get_cached_forecast turns a read that raises into a miss) and a fresh
\* entry's data is returned as it is
IssueCall(c) ==
    /\ fpc[c] = "idle"
    /\ IF c = 1 THEN TRUE ELSE fpc[c - 1] # "idle"
    /\ \E args \in Requests :
          LET entry == cache[KeyOf(args)]
          IN  /\ fargs' = [fargs EXCEPT ![c] = args]
              /\ \/ /\ args.use_cache
                    /\ UNCHANGED fails
                    /\ fread' = [fread EXCEPT ![c] = entry.writer]
                    /\ IF entry.exists /\ IsFresh(entry, now)
                       THEN /\ fresult' = [fresult EXCEPT ![c] = entry.data]
                            /\ fpc' = [fpc EXCEPT ![c] = "returned"]
                       ELSE /\ fpc' = [fpc EXCEPT ![c] = "fetch"]
                            /\ UNCHANGED fresult
                 \/ /\ args.use_cache
                    /\ StorageRaises
                    /\ fpc' = [fpc EXCEPT ![c] = "fetch"]
                    /\ UNCHANGED <<fread, fresult>>
                 \/ /\ ~args.use_cache
                    /\ fpc' = [fpc EXCEPT ![c] = "fetch"]
                    /\ UNCHANGED <<fread, fresult, fails>>
    /\ fstart' = [fstart EXCEPT ![c] = now]
    /\ fprior' = [fprior EXCEPT ![c] = {a \in Calls : fpc[a] = "returned"}]
    /\ UNCHANGED <<cache, now, fetched>>

\* lines 219-224: _fetch_price_history; with no history the error result is
\* returned and nothing is cached
FetchPriceHistory(c) ==
    /\ fpc[c] = "fetch"
    /\ fetched' = [fetched EXCEPT ![c] = TRUE]
    /\ \E empty \in BOOLEAN :
          IF empty
          THEN /\ fresult' = [fresult EXCEPT ![c] = NoHistoryResult]
               /\ fpc' = [fpc EXCEPT ![c] = "returned"]
          ELSE /\ fpc' = [fpc EXCEPT ![c] = "run"]
               /\ UNCHANGED fresult
    /\ UNCHANGED <<cache, now, fargs, fstart, fread, fprior, fails>>

\* lines 226-251: the models run on fresh random draws
RunModels(c) ==
    /\ fpc[c] = "run"
    /\ \E draw \in 1..NumDraws :
          fresult' = [fresult EXCEPT ![c] = SuiteResult(fargs[c], draw)]
    /\ fpc' = [fpc EXCEPT ![c] = IF fargs[c].use_cache THEN "save" ELSE "returned"]
    /\ UNCHANGED <<cache, now, fargs, fetched, fstart, fread, fprior, fails>>

\* lines 253-257 and _save_forecast_cache: a save that raises is swallowed
SaveForecastCache(c) ==
    /\ fpc[c] = "save"
    /\ \/ /\ cache' = [cache EXCEPT ![KeyOf(fargs[c])] =
                 CacheEntry(now, fresult[c], c)]
          /\ UNCHANGED fails
       \/ /\ StorageRaises
          /\ UNCHANGED cache
    /\ fpc' = [fpc EXCEPT ![c] = "returned"]
    /\ UNCHANGED <<now, fargs, fresult, fetched, fstart, fread, fprior>>

\* time passes
Tick ==
    /\ now < MaxTicks * TickHours
    /\ now' = now + TickHours
    /\ UNCHANGED <<cache, fpc, fargs, fresult, fetched, fstart, fread,
                   fprior, fails>>

\* ------------------------------------------------ suite of models
\* lines 320-341: the tasks of a suite are created
StartModels ==
    /\ mpc = "idle"
    /\ \E models \in ModelLists :
          /\ mreq' = models
          /\ mtasks' = TasksOf(models)
    /\ mpc' = "running"
    /\ UNCHANGED <<mresults, mens>>

\* a task of the gather ends: forecast() returned its per-ticker dict, or
\* raised
ModelEnds(i) ==
    /\ mpc = "running"
    /\ i \in 1..Len(mtasks)
    /\ mtasks[i].state = "pending"
    /\ \/ mtasks' = [mtasks EXCEPT ![i] = RaisedOutput(mtasks[i].model)]
       \/ \E forecast \in [SuiteTickers -> TickerResults] :
             mtasks' = [mtasks EXCEPT ![i] =
                           ReturnedOutput(mtasks[i].model, forecast)]
    /\ UNCHANGED <<mpc, mreq, mresults, mens>>

\* lines 343-356: gather returns when every task has ended
GatherResults ==
    /\ mpc = "running"
    /\ \A i \in 1..Len(mtasks) : mtasks[i].state # "pending"
    /\ mresults' = ProcessResults([m \in ModelNames |-> NoModelEntry],
                                  mreq, mtasks, 1)
    /\ mpc' = "gathered"
    /\ UNCHANGED <<mreq, mtasks, mens>>

\* run_forecast_suite lines 237-243
EnsembleStep ==
    /\ mpc = "gathered"
    /\ mens' = CreateEnsemble(mresults, mreq)
    /\ mpc' = "ensembled"
    /\ UNCHANGED <<mreq, mtasks, mresults>>

\* ------------------------------------------------------------ ARIMA model
\* ForecastingEngine.register_model: self.models[name] = model
RegisterModel(m) ==
    /\ ~aregistered[m]
    /\ aregistered' = [aregistered EXCEPT ![m] = TRUE]
    /\ UNCHANGED <<astorage, pcache, aclock, apc, aargs, aorder, atuned,
                   aread, astart, aprior, fails>>

\* BaseModel.set_storage_service, called by the owner of the instance
SetStorageService(m) ==
    /\ m = "own_arima"
    /\ astorage[m] = NoStorage
    /\ astorage' = [astorage EXCEPT ![m] = EngineStorage]
    /\ UNCHANGED <<aregistered, pcache, aclock, apc, aargs, aorder, atuned,
                   aread, astart, aprior, fails>>

\* _forecast_single lines 147-157, 170-172: fast mode and auto_tune=False
\* take the default order without looking at the cache
ArimaBegin(c) ==
    /\ apc[c] = "idle"
    /\ IF c = 1 THEN TRUE ELSE apc[c - 1] # "idle"
    /\ \E args \in ArimaRequests :
          /\ aargs' = [aargs EXCEPT ![c] = args]
          /\ IF args.auto_tune /\ ~args.fast_mode
             THEN /\ apc' = [apc EXCEPT ![c] = "lookup"]
                  /\ UNCHANGED aorder
             ELSE /\ apc' = [apc EXCEPT ![c] = "done"]
                  /\ aorder' = [aorder EXCEPT ![c] = DefaultOrder]
    /\ astart' = [astart EXCEPT ![c] = aclock]
    /\ aprior' = [aprior EXCEPT ![c] = {a \in ArimaCalls : apc[a] = "done"}]
    /\ UNCHANGED <<astorage, aregistered, pcache, aclock, atuned, aread,
                   fails>>

\* _get_cached_params: None without a storage service, when the get raises,
\* when there is no entry and when the entry has expired
ArimaLookup(c) ==
    /\ apc[c] = "lookup"
    /\ LET entry == pcache[aargs[c].ticker]
       IN  \/ /\ astorage[aargs[c].model] = NoStorage
              /\ apc' = [apc EXCEPT ![c] = "tune"]
              /\ UNCHANGED <<aorder, aread, fails>>
           \/ /\ astorage[aargs[c].model] # NoStorage
              /\ StorageRaises
              /\ apc' = [apc EXCEPT ![c] = "tune"]
              /\ UNCHANGED <<aorder, aread>>
           \/ /\ astorage[aargs[c].model] # NoStorage
              /\ UNCHANGED fails
              /\ IF entry.exists
                 THEN aread' = [aread EXCEPT ![c] = Lookup(entry, aclock)]
                 ELSE UNCHANGED aread
              /\ IF entry.exists /\ ~Expired(entry, aclock)
                 THEN /\ aorder' = [aorder EXCEPT ![c] = entry.params]
                      /\ apc' = [apc EXCEPT ![c] = "done"]
                 ELSE /\ apc' = [apc EXCEPT ![c] = "tune"]
                      /\ UNCHANGED aorder
    /\ UNCHANGED <<astorage, aregistered, pcache, aclock, aargs, atuned,
                   astart, aprior>>

\* lines 158-168: _auto_tune_arima, the AIC grid search, and then
\* _save_params_cache: nothing without a storage service; a save that
\* raises is swallowed
ArimaTuneAndSave(c) ==
    /\ apc[c] = "tune"
    /\ \E order \in Orders :
          /\ aorder' = [aorder EXCEPT ![c] = order]
          /\ \/ /\ astorage[aargs[c].model] = NoStorage
                /\ UNCHANGED <<pcache, fails>>
             \/ /\ astorage[aargs[c].model] # NoStorage
                /\ pcache' = [pcache EXCEPT ![aargs[c].ticker] =
                                 ParamsEntry(aclock, order)]
                /\ UNCHANGED fails
             \/ /\ astorage[aargs[c].model] # NoStorage
                /\ StorageRaises
                /\ UNCHANGED pcache
    /\ atuned' = [atuned EXCEPT ![c] = TRUE]
    /\ apc' = [apc EXCEPT ![c] = "done"]
    /\ UNCHANGED <<astorage, aregistered, aclock, aargs, aread, astart,
                   aprior>>

\* time passes
ArimaTick ==
    /\ aclock < MaxArimaTicks * TickHours
    /\ aclock' = aclock + TickHours
    /\ UNCHANGED <<astorage, aregistered, pcache, apc, aargs, aorder,
                   atuned, aread, astart, aprior, fails>>

\* -------------------------------------------------------------- optimizer
\* _run_optimization line 294: the arguments of the solve
OptStart ==
    /\ opc = "idle"
    /\ \E constraints \in ConstraintSets \cup {NoConstraints},
          fast \in BOOLEAN :
          /\ oconstraints' = constraints
          /\ ofast' = fast
    /\ opc' = "solve"
    /\ UNCHANGED <<oconverged, ounc, oresult, oportfolio>>

\* lines 295-300: the constrained solver with constraints, else the
\* unconstrained one; the fallback call does not pass `fast` on
OptSolve ==
    /\ opc = "solve"
    /\ IF oconstraints.present
       THEN \E converged \in BOOLEAN :
               /\ oconverged' = IF converged THEN "yes" ELSE "no"
               /\ IF converged
                  THEN /\ \E x \in Solutions(BuildBounds(oconstraints)) :
                             oresult' = ConstrainedResult(oconstraints, TRUE,
                                                          x, OptNoResult)
                       /\ ounc' = OptNoResult
                  ELSE \E unc \in MeanVariance(FALSE) :
                          /\ oresult' = ConstrainedResult(oconstraints, FALSE,
                                                          <<>>, unc)
                          /\ ounc' = unc
       ELSE /\ \E unc \in MeanVariance(ofast) :
                  /\ oresult' = unc
                  /\ ounc' = unc
            /\ oconverged' = "none"
    /\ opc' = IF oresult'.kind = "raised" THEN "raised" ELSE "returned"
    /\ UNCHANGED <<oconstraints, ofast, oportfolio>>

\* lines 302-334: the reported portfolio holds the active assets
OptFormat ==
    /\ opc = "returned"
    /\ oportfolio' = ActiveAssets(oresult.weights)
    /\ opc' = "formatted"
    /\ UNCHANGED <<oconstraints, ofast, oconverged, ounc, oresult>>

\* ------------------------------------------------ expected-returns stage
\* lines 142-226: the data of a job is fetched and split
ReturnsStart ==
    /\ rpc = "idle"
    /\ \E backtest \in BOOLEAN, fast \in BOOLEAN, data \in PriceDataSets,
          expense \in ExpenseRatios :
          rin' = [backtest |-> backtest, fast |-> fast, data |-> data,
                  expense |-> expense]
    /\ rpc' = "data"
    /\ UNCHANGED <<rforecast, reret, rcov>>

\* lines 233-284: with a forecasting engine and not in fast mode the
\* forecast suite is asked; an exception falls back to the historical
\* estimate, an error result does not; in fast mode the historical estimate
\* is taken at once
ExpectedReturnsStep ==
    /\ rpc = "data"
    /\ rcov' = CovarianceInputs(rin.backtest)
    /\ IF rin.fast
       THEN /\ reret' = HistoricalReturns(rin.backtest, rin.data, rin.expense)
            /\ rforecast' = "skipped"
       ELSE \/ /\ rforecast' = "raised"
               /\ reret' = HistoricalReturns(rin.backtest, rin.data,
                                             rin.expense)
            \/ /\ rforecast' = "error"
               /\ reret' = NanReturns(rin.backtest)
            \/ /\ rforecast' = "ok"
               /\ \E mean_return \in ForecastMeans :
                     reret' = ForecastReturns(rin.backtest, rin.data,
                                              rin.expense, mean_return)
    /\ rpc' = "optimizing"
    /\ UNCHANGED rin

\* ----------------------------------------------------------- risk metrics
\* a caller has a return series and a confidence level
RiskStart ==
    /\ kpc = "idle"
    /\ \E returns \in ReturnSeries, confidence \in ConfidenceLevels :
          /\ kreturns' = returns
          /\ kconf' = confidence
    /\ kpc' = "ready"
    /\ UNCHANGED <<kvar, kcvar>>

CalculateVarStep ==
    /\ kpc = "ready"
    /\ kvar.kind = "none"
    /\ kvar' = CalculateVar(kreturns, kconf)
    /\ UNCHANGED <<kpc, kreturns, kconf, kcvar>>

CalculateCvarStep ==
    /\ kpc = "ready"
    /\ kcvar.kind = "none"
    /\ kcvar' = CalculateCvar(kreturns, kconf)
    /\ UNCHANGED <<kpc, kreturns, kconf, kvar>>

\* ------------------------------------------------------ ARIMA grid search
\* _auto_tune_arima lines 281-283: the search begins
TuneStart ==
    /\ tpc = "idle"
    /\ \E p_range \in PRanges, d_range \in DRanges, q_range \in QRanges :
          tranges' = [p_range |-> p_range, d_range |-> d_range,
                      q_range |-> q_range]
    /\ tpc' = "searching"
    /\ UNCHANGED <<tnext, titerations, tfits, tfitted, tbest_aic,
                   tbest_order, tlow, tresult>>

\* lines 287-304: one turn of the innermost loop below the budget; the fit
\* raises and the candidate is skipped, or it gives an AIC
TuneFit ==
    /\ tpc = "searching"
    /\ tnext < GridSize(tranges)
    /\ ~BudgetSpent(titerations + 1)
    /\ titerations' = titerations + 1
    /\ tfits' = tfits + 1
    /\ tnext' = tnext + 1
    /\ \/ UNCHANGED <<tfitted, tbest_aic, tbest_order, tlow>>
       \/ \E aic \in AicValues :
             /\ tfitted' = TRUE
             /\ tlow' = IF tlow = InfAic THEN <<aic>>
                         ELSE IF aic < tlow[1] THEN <<aic>> ELSE tlow
             /\ IF AicBelow(aic, tbest_aic)
                THEN /\ tbest_aic' = <<aic>>
                     /\ tbest_order' = Candidate(tranges, tnext)
                ELSE UNCHANGED <<tbest_aic, tbest_order>>
    /\ UNCHANGED <<tpc, tranges, tresult>>

\* lines 287-289: the turn that exceeds the budget returns
TuneBudgetReturn ==
    /\ tpc = "searching"
    /\ tnext < GridSize(tranges)
    /\ BudgetSpent(titerations + 1)
    /\ titerations' = titerations + 1
    /\ tresult' = tbest_order
    /\ tpc' = "returned"
    /\ UNCHANGED <<tranges, tnext, tfits, tfitted, tbest_aic, tbest_order,
                   tlow>>

\* line 306: the loops are over
TuneReturn ==
    /\ tpc = "searching"
    /\ tnext >= GridSize(tranges)
    /\ tresult' = tbest_order
    /\ tpc' = "returned"
    /\ UNCHANGED <<tranges, tnext, titerations, tfits, tfitted, tbest_aic,
                   tbest_order, tlow>>

\* ------------------------------------------------------------------- auth
\* tests/test_auth_revocation.py lines 15-24: get_auth_service is replaced
\* by a JWTAuthService that has a storage service; get_auth_service itself
\* (dependencies.py line 29) makes one without
OverrideAuthService ==
    /\ hstorage = NoStorage
    /\ hstorage' = EngineStorage
    /\ UNCHANGED <<hissued, hrevoked, hloggedout, hresp, fails>>

\* login_for_access_token lines 45-58: a new refresh token in the cookie
Login ==
    /\ \E token \in RefreshTokens \ hissued :
          hissued' = hissued \cup {token}
    /\ UNCHANGED <<hstorage, hrevoked, hloggedout, hresp, fails>>

\* logout lines 134-138 with revoke_token lines 113-137: with no storage
\* service the save raises AttributeError inside the try, a save that
\* raises is swallowed as well; the answer is 200 in every case
Logout(token) ==
    /\ token \in hissued
    /\ \/ /\ hstorage = NoStorage
          /\ UNCHANGED <<hrevoked, fails>>
       \/ /\ hstorage # NoStorage
          /\ hrevoked' = hrevoked \cup {TokenHash(token)}
          /\ UNCHANGED fails
       \/ /\ hstorage # NoStorage
          /\ StorageRaises
          /\ UNCHANGED hrevoked
    /\ hloggedout' = hloggedout \cup {token}
    /\ UNCHANGED <<hstorage, hissued, hresp>>

\* refresh_token lines 78-85 and 120-121: a token that does not verify or
\* is found revoked is answered 401
RefreshRejected(token) ==
    /\ \/ token \notin hissued
       \/ IsTokenRevoked(hstorage, hrevoked, token)
    /\ hresp' = [token |-> token, status |-> Unauthorized,
                 after_logout |-> token \in hloggedout]
    /\ UNCHANGED <<hstorage, hissued, hrevoked, hloggedout, fails>>

\* refresh_token lines 84-119: the token is not found revoked, or the
\* storage read raises and is_token_revoked answers False; new tokens are
\* made, the refresh token equal to the old one within the same second
RefreshAccepted(token) ==
    /\ token \in hissued
    /\ \/ /\ ~IsTokenRevoked(hstorage, hrevoked, token)
          /\ UNCHANGED fails
       \/ /\ hstorage # NoStorage
          /\ StorageRaises
    /\ \E new \in (RefreshTokens \ hissued) \cup {token} :
          hissued' = hissued \cup {new}
    /\ hresp' = [token |-> token, status |-> Ok,
                 after_logout |-> token \in hloggedout]
    /\ UNCHANGED <<hstorage, hrevoked, hloggedout>>

\* ------------------------------------------------------------- agent runs
\* run_agent lines 25-39 with create_run: an unknown agent name is answered
\* 404 and a save that raises 500, both without a run; otherwise the
\* document is saved with status queued and execute_run is scheduled
RunAgent(r) ==
    /\ gpc[r] = "idle"
    /\ \E registered \in BOOLEAN :
          \/ /\ ~registered
             /\ gpc' = [gpc EXCEPT ![r] = "rejected"]
             /\ UNCHANGED <<runs, fails>>
          \/ /\ registered
             /\ StorageRaises
             /\ gpc' = [gpc EXCEPT ![r] = "rejected"]
             /\ UNCHANGED runs
          \/ /\ registered
             /\ runs' = [runs EXCEPT ![r] = "queued"]
             /\ gpc' = [gpc EXCEPT ![r] = "scheduled"]
             /\ UNCHANGED fails

\* execute_run lines 42-47: the update to running; an update that raises
\* goes to the except branch
ExecuteRunStart(r) ==
    /\ gpc[r] = "scheduled"
    /\ \/ /\ runs' = [runs EXCEPT ![r] = "running"]
          /\ gpc' = [gpc EXCEPT ![r] = "agent"]
          /\ UNCHANGED fails
       \/ /\ StorageRaises
          /\ gpc' = [gpc EXCEPT ![r] = "except"]
          /\ UNCHANGED runs

\* lines 50-53: agent.run returns a result or raises
AgentRun(r) ==
    /\ gpc[r] = "agent"
    /\ \E raised \in BOOLEAN :
          gpc' = [gpc EXCEPT ![r] = IF raised THEN "except" ELSE "complete"]
    /\ UNCHANGED <<runs, fails>>

\* lines 55-59: the update to completed, inside the try
ExecuteRunCompleted(r) ==
    /\ gpc[r] = "complete"
    /\ \/ /\ runs' = [runs EXCEPT ![r] = "completed"]
          /\ gpc' = [gpc EXCEPT ![r] = "done"]
          /\ UNCHANGED fails
       \/ /\ StorageRaises
          /\ gpc' = [gpc EXCEPT ![r] = "except"]
          /\ UNCHANGED runs

\* lines 60-66: the except branch updates to failed; an update that raises
\* here ends the task with the exception
ExecuteRunFailed(r) ==
    /\ gpc[r] = "except"
    /\ \/ /\ runs' = [runs EXCEPT ![r] = "failed"]
          /\ gpc' = [gpc EXCEPT ![r] = "done"]
          /\ UNCHANGED fails
       \/ /\ StorageRaises
          /\ gpc' = [gpc EXCEPT ![r] = "raised"]
          /\ UNCHANGED runs

\* -------------------------------------------------------------------- spec
Next ==
    /\ UNCHANGED <<forecastVars, suiteVars, arimaVars, optVars, returnVars, riskVars, tuneVars, authVars, agentVars>>
    /\ \E j \in Jobs :
       \/ StartLoadConstraints(j)
       \/ StartSaveAndSchedule(j)
       \/ StartSaveRaises(j)
       \/ TaskStart(j)
       \/ UpdateGet(j)
       \/ UpdateSave(j)
       \/ FetchData(j)
       \/ Forecast(j)
       \/ Solve(j)
       \/ Scenarios(j)
       \/ SaveResult(j)
       \/ LlmReport(j)
       \/ SaveCompleted(j)
       \/ HandleException(j)
       \/ GetOptimizationStatus(j)
       \/ ClearOptimizationCache(j)

Spec == Init /\ [][Next]_vars

NextForecast ==
    /\ UNCHANGED <<jobVars, suiteVars, arimaVars, optVars, returnVars, riskVars, tuneVars, authVars, agentVars>>
    /\ \/ \E c \in Calls :
             \/ IssueCall(c)
             \/ FetchPriceHistory(c)
             \/ RunModels(c)
             \/ SaveForecastCache(c)
       \/ Tick

SpecForecast == Init /\ [][NextForecast]_vars

NextModels ==
    /\ UNCHANGED <<jobVars, forecastVars, arimaVars, optVars, fails, returnVars, riskVars, tuneVars, authVars, agentVars>>
    /\ \/ StartModels
       \/ \E i \in DOMAIN mtasks : ModelEnds(i)
       \/ GatherResults
       \/ EnsembleStep

SpecModels == Init /\ [][NextModels]_vars

NextArima ==
    /\ UNCHANGED <<jobVars, forecastVars, suiteVars, optVars, returnVars, riskVars, tuneVars, authVars, agentVars>>
    /\ \/ \E m \in ArimaInstances :
             \/ RegisterModel(m)
             \/ SetStorageService(m)
       \/ \E c \in ArimaCalls :
             \/ ArimaBegin(c)
             \/ ArimaLookup(c)
             \/ ArimaTuneAndSave(c)
       \/ ArimaTick

SpecArima == Init /\ [][NextArima]_vars

NextOptimizer ==
    /\ UNCHANGED <<jobVars, forecastVars, suiteVars, arimaVars, fails,
                 returnVars, riskVars, tuneVars, authVars, agentVars>>
    /\ \/ OptStart
       \/ OptSolve
       \/ OptFormat

SpecOptimizer == Init /\ [][NextOptimizer]_vars

NextReturns ==
    /\ UNCHANGED <<jobVars, forecastVars, suiteVars, arimaVars, optVars,
                   riskVars, tuneVars, authVars, agentVars, fails>>
    /\ \/ ReturnsStart
       \/ ExpectedReturnsStep

SpecReturns == Init /\ [][NextReturns]_vars

NextRisk ==
    /\ UNCHANGED <<jobVars, forecastVars, suiteVars, arimaVars, optVars,
                   returnVars, tuneVars, authVars, agentVars, fails>>
    /\ \/ RiskStart
       \/ CalculateVarStep
       \/ CalculateCvarStep

SpecRisk == Init /\ [][NextRisk]_vars

NextTune ==
    /\ UNCHANGED <<jobVars, forecastVars, suiteVars, arimaVars, optVars,
                   returnVars, riskVars, authVars, agentVars, fails>>
    /\ \/ TuneStart
       \/ TuneFit
       \/ TuneBudgetReturn
       \/ TuneReturn

SpecTune == Init /\ [][NextTune]_vars

NextAuth ==
    /\ UNCHANGED <<jobVars, forecastVars, suiteVars, arimaVars, optVars,
                   returnVars, riskVars, tuneVars, agentVars>>
    /\ \/ OverrideAuthService
       \/ Login
       \/ \E token \in RefreshTokens :
             \/ Logout(token)
             \/ RefreshRejected(token)
             \/ RefreshAccepted(token)

SpecAuth == Init /\ [][NextAuth]_vars

ExecuteRun(r) ==
    \/ ExecuteRunStart(r)
    \/ AgentRun(r)
    \/ ExecuteRunCompleted(r)
    \/ ExecuteRunFailed(r)

NextAgent ==
    /\ UNCHANGED <<jobVars, forecastVars, suiteVars, arimaVars, optVars,
                   returnVars, riskVars, tuneVars, authVars>>
    /\ \E r \in Runs :
          \/ RunAgent(r)
          \/ ExecuteRun(r)

SpecAgent == Init /\ [][NextAgent]_vars

\* a background task that was added runs, and each of its awaits ends
SpecAgentFair ==
    SpecAgent /\ \A r \in Runs : WF_vars(NextAgent /\ ExecuteRun(r))

TypeOK ==
    /\ \A j \in Jobs : store[j].status \in JobStates \cup {"none"}
    /\ fails \in 0..MaxFail

\* ------------------------------------------------------------------ claims
Ended(j) == pc[j] \in {"done", "raised"}
Running(j) == pc[j] \notin {"none", "done", "raised"}

StateOrder ==
    <<"queued", "fetching_data", "forecasting", "optimizing",
      "generating_analysis", "completed">>

Rank(status) == CHOOSE i \in 1..Len(StateOrder) : StateOrder[i] = status

InOrder(status) == \E i \in 1..Len(StateOrder) : StateOrder[i] = status

\* the persisted status of job j changes in this step
StatusChanges(j) ==
    /\ lastWrite[j].exists
    /\ lastWrite'[j].status # lastWrite[j].status

ToFailed(j) ==
    /\ lastWrite'[j].status = "failed"
    /\ lastWrite[j].status \notin TerminalStates

\* C1 as claimed: every change of a job's persisted status goes to the
\* immediate successor in the order queued, fetching_data, forecasting,
\* optimizing, generating_analysis, completed, or from a non-terminal state
\* to failed.
C1_ImmediateSuccessor ==
    [][\A j \in Jobs :
          StatusChanges(j) =>
             \/ ToFailed(j)
             \/ /\ InOrder(lastWrite[j].status)
                /\ InOrder(lastWrite'[j].status)
                /\ Rank(lastWrite'[j].status) = Rank(lastWrite[j].status) + 1]_vars

\* C1 amended: every change of a job's persisted status goes forward in the
\* order or from a non-terminal state to failed, never backwards and never
\* out of completed or failed; a write to a document that is present goes
\* to the immediate successor, except that fast mode goes from
\* fetching_data to optimizing; a document written again after a cache
\* clear may resume at any later state.
C1_ForwardOnly ==
    [][\A j \in Jobs :
          StatusChanges(j) =>
             \/ ToFailed(j)
             \/ /\ InOrder(lastWrite[j].status)
                /\ InOrder(lastWrite'[j].status)
                /\ Rank(lastWrite'[j].status) > Rank(lastWrite[j].status)
                /\ store[j].exists =>
                      \/ Rank(lastWrite'[j].status) = Rank(lastWrite[j].status) + 1
                      \/ /\ params[j].fast
                         /\ lastWrite[j].status = "fetching_data"
                         /\ lastWrite'[j].status = "optimizing"]_vars

\* a fast job whose document went from fetching_data to optimizing
C1_Witness ==
    \E j \in Jobs :
       /\ params[j].fast
       /\ store[j].exists
       /\ store[j].status = "optimizing"

\* C2: a status read interleaved with the running pipeline returns a
\* document whose status is one of the seven states and which is, field for
\* field, the document of one save that returned.
C2_ReadIsOneWrite ==
    \A j \in Jobs :
       (response.job = j /\ response.doc.exists) =>
          /\ response.doc.status \in JobStates
          /\ response.doc = lastWrite[j]

\* a status read answered while the pipeline of that job is past the solve
C2_Witness ==
    \E j \in Jobs :
       /\ response.job = j
       /\ response.doc.exists
       /\ response.doc.status = "generating_analysis"
       /\ response.doc.optimal_portfolio
       /\ Running(j)

\* C3 as claimed, in the form a finite run refutes: when the task of a job
\* has ended, the job's persisted status is completed or failed.
C3_EndedJobIsTerminal ==
    \A j \in Jobs : Ended(j) => lastWrite[j].status \in TerminalStates

\* C4: at the step in which start_optimization returns the job id, the
\* document of that id is in the store with status queued and the pipeline
\* task has been created but has not run any stage.
C4_ReturnsQueuedWithoutWaiting ==
    [][\A j \in Jobs :
          (call[j] # "returned" /\ call'[j] = "returned") =>
             /\ store'[j].exists
             /\ store'[j].status = "queued"
             /\ pc'[j] = "scheduled"]_vars

\* start_optimization has returned and the task has not started
C4_Witness ==
    \E j \in Jobs :
       /\ call[j] = "returned"
       /\ pc[j] = "scheduled"
       /\ store[j].status = "queued"

\* C5 as claimed: no call of start_optimization ends by raising.
C5_StartNeverRaises ==
    \A j \in Jobs : call[j] # "raised"

\* C6 as claimed: a job whose universe is entirely excluded ends with
\* persisted status failed and a non-empty error, and its task does not
\* raise.
C6_AllExcludedEndsFailed ==
    \A j \in Jobs :
       (params[j].excluded /\ Ended(j)) =>
          /\ pc[j] = "done"
          /\ lastWrite[j].status = "failed"
          /\ lastWrite[j].error # NoError

\* C7 as claimed: a job one of whose saves raised ends with persisted
\* status failed and a recorded error string.
C7_WriteFailureEndsFailed ==
    \A j \in Jobs :
       (writeFailed[j] /\ Ended(j)) =>
          /\ lastWrite[j].status = "failed"
          /\ lastWrite[j].error # NoError

\* C8 as claimed (second sentence): a failure confined to the constrained
\* solve never ends the job in failed.
C8_LocalFailureNeverFails ==
    \A j \in Jobs :
       lastWrite[j].status = "failed" => lastWrite[j].error # AttributeErrMsg

\* C9 as claimed: while the pipeline of a job is running, every step that
\* changes or removes the job's document is a step of that pipeline.
C9_PipelineIsOnlyWriter ==
    [][\A j \in Jobs :
          (Running(j) /\ store'[j] # store[j]) => pc'[j] # pc[j]]_vars

\* the two calls pass the same tickers, horizon, models and simulations
SameRequest(a, b) ==
    /\ fargs[a].tickers = fargs[b].tickers
    /\ fargs[a].simulations = fargs[b].simulations

\* call b was issued after call a had returned, less than the TTL after a
\* was issued, and both use the cache
OneAfterTheOther(a, b) ==
    /\ a # b
    /\ fpc[b] = "returned"
    /\ a \in fprior[b]
    /\ fargs[a].use_cache
    /\ fargs[b].use_cache
    /\ fstart[b] - fstart[a] < ForecastCacheTtlHours

Overlapped(a, b) ==
    /\ a # b
    /\ a \notin fprior[b]
    /\ b \notin fprior[a]

\* both calls ran the models for the same request with caching enabled and
\* have returned, and the entry under their key was written by one of them
RacedToPopulate(a, b) ==
    /\ Overlapped(a, b)
    /\ fpc[a] = "returned" /\ fpc[b] = "returned"
    /\ SameRequest(a, b)
    /\ fargs[a].use_cache /\ fargs[b].use_cache
    /\ fresult[a].kind = "forecast" /\ fresult[b].kind = "forecast"
    /\ fetched[a] /\ fetched[b]
    /\ cache[KeyOf(fargs[a])].writer \in {a, b}

\* C11: when two overlapping calls for the same computation race to
\* populate the cache, the cached entry equals the result that each of the
\* two callers returned.
C11_RacedEntryEqualsBothResults ==
    \A a, b \in Calls :
       RacedToPopulate(a, b) =>
          /\ cache[KeyOf(fargs[a])].data = fresult[a]
          /\ cache[KeyOf(fargs[a])].data = fresult[b]

\* ------------------------------------------------------------ C12, C13
\* C12: once the gather is done, the result map's entry for a requested
\* model is that model's own output if it returned and the error entry if
\* it raised, whatever the other requested models did.
C12_EntryIsOwnOutcome ==
    mpc \in {"gathered", "ensembled"} =>
       \A i \in DOMAIN mtasks :
          LET m == mtasks[i].model
          IN  (\A k \in DOMAIN mtasks : mtasks[k].model = m => k = i) =>
                 /\ mtasks[i].state = "returned" =>
                       mresults[m] = OutputEntry(mtasks[i])
                 /\ mtasks[i].state = "raised" =>
                       mresults[m] = ErrorEntry(mtasks[i])

\* the model of task i errored for ticker t: it raised, or its forecast
\* holds an error for t
ErroredFor(i, t) ==
    \/ mtasks[i].state = "raised"
    \/ mtasks[i].state = "returned" /\ mtasks[i].forecast[t].kind = "error"

SurvivedFor(i, t) ==
    mtasks[i].state = "returned" /\ mtasks[i].forecast[t].kind = "ok"

\* two different models were requested and both ran
TwoModelsRan ==
    /\ mpc = "ensembled"
    /\ Len(mreq) = 2
    /\ Len(mtasks) = 2
    /\ mreq[1] # mreq[2]

\* C13: for a ticker on which exactly one of two requested models errored,
\* the ensemble's mean return and terminal mean price are the surviving
\* model's values.
C13_EnsembleIsSurvivor ==
    TwoModelsRan =>
       \A t \in SuiteTickers : \A i, k \in DOMAIN mtasks :
          (ErroredFor(i, t) /\ SurvivedFor(k, t)) =>
             /\ mens[t].has_metrics
             /\ mens[t].mean_return = mtasks[k].forecast[t].mean_return
             /\ mens[t].terminal_mean = mtasks[k].forecast[t].terminal_mean

\* the first model raised and the second reported a return for ticker "A"
C13_Witness ==
    /\ TwoModelsRan
    /\ mtasks[1].state = "raised"
    /\ SurvivedFor(2, "A")
    /\ mens["A"].has_metrics
    /\ mens["A"].mean_return = 4

\* ------------------------------------------------------------ C14
\* a is the first forecast for its ticker, b a forecast for the same ticker
\* that began after a was done and within the TTL window, both with
\* auto-tuning enabled
FirstThenLater(a, b) ==
    /\ a # b
    /\ apc[a] = "done" /\ apc[b] = "done"
    /\ a \in aprior[b]
    /\ aargs[a].ticker = aargs[b].ticker
    /\ aargs[a].auto_tune /\ aargs[b].auto_tune
    /\ \A c \in ArimaCalls :
          (c < a /\ apc[c] # "idle") => aargs[c].ticker # aargs[a].ticker
    /\ astart[b] - astart[a] <= ArimaCacheHours

\* C14: with auto-tuning enabled the first forecast for a ticker runs the
\* grid search and writes a cache entry for the ticker, and a later forecast
\* for the ticker within the TTL window fits the cached order without
\* running the grid search.
C14_LaterForecastUsesCachedOrder ==
    \A a, b \in ArimaCalls :
       FirstThenLater(a, b) =>
          /\ atuned[a]
          /\ pcache[aargs[a].ticker].exists
          /\ ~atuned[b]
          /\ aorder[b] = aorder[a]

\* ------------------------------------------------------------ C15
\* C15: a forecast whose lookup obtained an entry written more than 24 hours
\* before does not fit the cached order: it runs the grid search.
C15_ExpiredEntryNotUsed ==
    \A c \in ArimaCalls :
       (/\ apc[c] = "done"
        /\ aread[c].exists
        /\ aread[c].age > ArimaCacheHours) => atuned[c]

\* a forecast found an expired entry and ran the grid search
C15_Witness ==
    \E c \in ArimaCalls :
       /\ apc[c] = "done"
       /\ aread[c].exists
       /\ aread[c].age > ArimaCacheHours
       /\ atuned[c]

\* ------------------------------------------------------------ C16
\* C16: a model that is registered with the engine has the engine's
\* storage service.
C16_RegisteredModelHasStorage ==
    \A m \in ArimaInstances :
       aregistered[m] => astorage[m] = EngineStorage

\* ------------------------------------------------------------ C17
\* ticker t has weight 0 in, or is absent from, the weights w
ZeroOrAbsent(w, t) == t \notin DOMAIN w \/ w[t] = 0

Solved == opc \in {"returned", "formatted"}

\* C17: a ticker excluded by the constraints has weight 0, or is absent, in
\* the optimal portfolio and in every frontier point that the optimizer
\* returns.
C17_ExcludedHasZeroWeight ==
    Solved =>
       \A t \in oconstraints.excluded_assets :
          /\ ZeroOrAbsent(oresult.weights, t)
          /\ \A point \in oresult.frontier : ZeroOrAbsent(point, t)
          /\ opc = "formatted" => ZeroOrAbsent(oportfolio, t)

\* ------------------------------------------------------------ C18
\* C18: the weights of the reported optimal portfolio sum to 1 within 0.001.
C18_ReportedWeightsSumToOne ==
    opc = "formatted" =>
       /\ SumWeights(oportfolio) >= WeightScale - 10
       /\ SumWeights(oportfolio) <= WeightScale + 10

\* ------------------------------------------------------------ C19
\* the upper bound that applies to a weight under the constraints
UpperBound(constraints) ==
    IF constraints.present /\ constraints.has_max
    THEN constraints.max_asset_weight ELSE WeightScale

\* C19: every weight of the reported optimal portfolio lies between 0 and
\* the applicable upper bound.
C19_WeightsWithinBounds ==
    opc = "formatted" =>
       \A t \in DOMAIN oportfolio :
          /\ oportfolio[t] >= 0
          /\ oportfolio[t] <= UpperBound(oconstraints)

C21_ConvergedReturnsAtMostMaxHoldings ==
    (oconstraints.present /\ oconverged = "yes") =>
       /\ oresult.kind = "returned"
       /\ Cardinality(DOMAIN oresult.weights) <= oconstraints.max_holdings

\* ------------------------------------------------------------ C22
ForecastFailed == rforecast \in {"raised", "error"}

\* C22: when forecasting failed for a job, its expected returns are the
\* historical estimate made of the price window of the covariance matrix,
\* and the job is at optimizing.
C22_FailureFallsBackToHistorical ==
    ForecastFailed =>
       /\ rpc = "optimizing"
       /\ reret.kind = "historical"
       /\ reret.value = WindowEstimate(rin.data, rin.expense)

\* ------------------------------------------------------------ C23
\* C23: in backtest mode neither the expected returns nor the covariance
\* matrix are made from data dated after historical_date.
C23_NoDataAfterSplit ==
    (rin.backtest /\ rpc = "optimizing") =>
       /\ "post" \notin reret.inputs
       /\ "post" \notin rcov

C25_AtMostMaxIterFits ==
    /\ tfits <= MaxIter
    /\ tpc = "returned" =>
          /\ tresult = tbest_order
          /\ tbest_aic = tlow
          /\ ~tfitted => tresult = DefaultOrder

\* a search over more candidates than the budget that was cut off after a
\* candidate had fitted
C25_Witness ==
    /\ tpc = "returned"
    /\ GridSize(tranges) > MaxIter
    /\ tfits = MaxIter
    /\ tfitted
    /\ tresult # DefaultOrder

\* ------------------------------------------------------------ C26
\* C26: a refresh request made with a refresh token that an earlier logout
\* request presented is answered 401.
C26_RefreshAfterLogoutRejected ==
    hresp.after_logout => hresp.status = Unauthorized

\* ------------------------------------------------------------ C27
\* C27: after a cache clear has deleted the document of a job, a status
\* read for that job finds no document, also when the pipeline of the job
\* was still running at the time of the deletion.
C27_DeletedJobStaysDeleted ==
    \A j \in Jobs :
        (response.job = j /\ j \in cleared) => ~response.doc.exists

\* ------------------------------------------------------------ C28
\* C28: the forecast suite a call receives, from the cache or not, was
\* computed with the scenarios of that call.
C28_CachedResultHasCallersScenarios ==
    \A c \in Calls :
        (fpc[c] = "returned" /\ fresult[c].kind = "forecast") =>
            fresult[c].scenarios = fargs[c].scenarios

\* ------------------------------------------------------------ C29
\* C29: a persisted job snapshot has a completed_at timestamp only when its
\* status is completed.
C29_CompletedAtOnlyWhenCompleted ==
    \A j \in Jobs :
        (store[j].exists /\ store[j].completed_at) =>
            store[j].status = "completed"

\* ------------------------------------------------------------ C30
\* C30: the status of a run goes from queued to running to exactly one of
\* completed and failed and never changes afterwards, and every run whose
\* execution was scheduled eventually has status completed or failed.
RunStatusOrder ==
    [][\A r \in Runs :
          runs'[r] # runs[r] =>
              <<runs[r], runs'[r]>> \in {<<NoRun, "queued">>,
                                         <<"queued", "running">>,
                                         <<"running", "completed">>,
                                         <<"running", "failed">>}]_vars

C30_RunsReachCompletedOrFailed ==
    /\ RunStatusOrder
    /\ \A r \in Runs : (gpc[r] = "scheduled") ~> (runs[r] \in RunTerminal)

====
